---------------------------- MODULE Spec2Model ----------------------------
(***************************************************************************)
(* Crew Matching Tool (crew_matching_app.py): roster PDF -> availability   *)
(* -> PIC/SIC pairings.                                                    *)
(*                                                                         *)
(* Conventions of the model.                                               *)
(*  - A Python str is a sequence of one-character strings.                 *)
(*  - A word of pdfplumber is a record [text, x0, x1, top, bottom] with    *)
(*    integer coordinates.  Centres are kept doubled (top + bottom,        *)
(*    x0 + x1) and averages are kept as fractions [num, den], so that all  *)
(*    comparisons of the code are made exactly, without division.         *)
(*  - A Python list is a sequence, a set a set, a dict a sequence of       *)
(*    <<key, value>> in insertion order (the order min() and sorted()      *)
(*    iterate in).                                                         *)
(***************************************************************************)
EXTENDS Integers, Sequences, FiniteSets, TLC

VARIABLES
    pc,             \* position of the run
    words,          \* page.extract_words() of the current page / cluster_rows input
    tols,           \* <<t1, t2>>: the two tolerances (doubled) of a clustering comparison
    rows_lo,        \* cluster_rows(words, t1)
    rows_hi,        \* cluster_rows(words, t2)
    available_code, \* parse_pdf_availability: the marker text
    valid_pilots,   \* parse_pdf_availability: None or the set of known codes
    page_no,        \* number of pages of pdf.pages read so far
    day_cols,       \* dict day -> doubled x centre, of the current page
    rows,           \* cluster_rows(words) of the current page
    pilot_rows,     \* list of {row_index, pilot_codes, y_position}
    all_days,       \* set of day strings
    availability,   \* dict day -> set of pilot codes
    credits,        \* the "Found ... for pilots ..." lines of the current page
    days,           \* the returned day list
    pdf_file,       \* sidebar: the uploaded roster PDF, or None
    roles_file,     \* sidebar: the uploaded roles table, or None
    restr_file,     \* sidebar: the uploaded restrictions table, or None
    avail_code,     \* sidebar: the availability code
    shown,          \* the st.info / st.warning / st.error message shown, if any
    role_map,       \* dict pilot -> role, once loaded
    restrictions,   \* set of (PIC, SIC), once loaded
    chosen_day,     \* the selected day
    avail_today,    \* sorted list of the codes available on chosen_day
    PICs,           \* build_allowed_pairs: list of PIC codes
    SICs,           \* build_allowed_pairs: list of SIC codes
    allowed_edges,  \* build_allowed_pairs: list of allowed (PIC, SIC)
    matching,       \* max_bipartite_pairings: the matching dict, node -> partner
    pairings        \* the returned list of (PIC, SIC)

clusterVars == <<tols, rows_lo, rows_hi>>
inputVars == <<pdf_file, roles_file, restr_file, avail_code>>
tableVars == <<role_map, restrictions>>
pairVars == <<chosen_day, avail_today, PICs, SICs, allowed_edges, matching, pairings>>
pipeVars == <<inputVars, shown, tableVars, pairVars>>
parseVars == <<available_code, valid_pilots, page_no, day_cols, rows, pilot_rows,
               all_days, availability, credits, days>>
vars == <<pc, words, clusterVars, parseVars, pipeVars>>

Abs(n) == IF n < 0 THEN -n ELSE n

\* None, and a value that may be None, as a sequence of at most one element
None == <<>>
Some(x) == <<x>>
ValueOf(opt) == opt[1]

-----------------------------------------------------------------------------
(* Python str, character by character *)

DigitChars == <<"0", "1", "2", "3", "4", "5", "6", "7", "8", "9">>
UpperChars ==
    <<"A", "B", "C", "D", "E", "F", "G", "H", "I", "J", "K", "L", "M",
      "N", "O", "P", "Q", "R", "S", "T", "U", "V", "W", "X", "Y", "Z">>
LowerChars ==
    <<"a", "b", "c", "d", "e", "f", "g", "h", "i", "j", "k", "l", "m",
      "n", "o", "p", "q", "r", "s", "t", "u", "v", "w", "x", "y", "z">>

\* code points order the characters: space ( ) 0-9 A-Z a-z
AsciiOrder == <<" ", "(", ")">> \o DigitChars \o UpperChars \o LowerChars

IndexIn(seq, c) == CHOOSE i \in 1..Len(seq) : seq[i] = c
InSeq(seq, c) == \E i \in 1..Len(seq) : seq[i] = c
Ord(c) == IndexIn(AsciiOrder, c)

IsUpperChar(c) == InSeq(UpperChars, c)
IsDigitChar(c) == InSeq(DigitChars, c)

\* str.upper(), one character
UpperChar(c) == IF InSeq(LowerChars, c) THEN UpperChars[IndexIn(LowerChars, c)] ELSE c
\* str.upper()
Upper(s) == [i \in 1..Len(s) |-> UpperChar(s[i])]

\* s < t for two str (lexicographic by code point)
RECURSIVE StrLess(_, _)
StrLess(s, t) ==
    IF t = <<>> THEN FALSE
    ELSE IF s = <<>> THEN TRUE
    ELSE IF s[1] # t[1] THEN Ord(s[1]) < Ord(t[1])
    ELSE StrLess(Tail(s), Tail(t))

\* str.lstrip("0")
RECURSIVE Lstrip0(_)
Lstrip0(s) == IF s # <<>> /\ s[1] = "0" THEN Lstrip0(Tail(s)) ELSE s

\* str.isdigit() on ASCII text: non-empty, digits only
IsDigitStr(s) == s # <<>> /\ \A i \in 1..Len(s) : IsDigitChar(s[i])

\* int(s) for a digit string
RECURSIVE ToInt(_)
ToInt(s) ==
    IF s = <<>> THEN 0
    ELSE 10 * ToInt(SubSeq(s, 1, Len(s) - 1)) + (IndexIn(DigitChars, s[Len(s)]) - 1)

\* str(n) for n >= 0
RECURSIVE IntToStr(_)
IntToStr(n) ==
    IF n < 10 THEN <<DigitChars[n + 1]>>
    ELSE IntToStr(n \div 10) \o <<DigitChars[(n % 10) + 1]>>

-----------------------------------------------------------------------------
(* cluster_rows *)

\* round(num / den) of Python 3 for num >= 0, den > 0: halves go to the even integer
PyRound(num, den) ==
    LET q == num \div den
        r == num % den
    IN  IF 2 * r < den THEN q
        ELSE IF 2 * r > den THEN q + 1
        ELSE IF q % 2 = 0 THEN q ELSE q + 1

\* twice the vertical centre (w["top"] + w["bottom"]) / 2
YC2(w) == w.top + w.bottom
\* twice the horizontal centre (w["x0"] + w["x1"]) / 2
XC2(w) == w.x0 + w.x1

\* RowKey with the word's top edge in place of its vertical centre
RowKeyFromTop(w, tol2) == PyRound(2 * w.top, tol2)

\* key = round(yc / tol), with tol given doubled (tol2 = 2 * tol)
RowKey(w, tol2) == PyRound(YC2(w), tol2)

\* sorted(v, key=lambda x: x["x0"]): a stable insertion sort by x0
RECURSIVE InsertByX0(_, _)
InsertByX0(sorted, w) ==
    IF sorted = <<>> THEN <<w>>
    ELSE IF sorted[Len(sorted)].x0 <= w.x0 THEN Append(sorted, w)
    ELSE Append(InsertByX0(SubSeq(sorted, 1, Len(sorted) - 1), w), sorted[Len(sorted)])

RECURSIVE SortByX0(_)
SortByX0(s) ==
    IF s = <<>> THEN <<>>
    ELSE InsertByX0(SortByX0(SubSeq(s, 1, Len(s) - 1)), s[Len(s)])

\* the ascending sequence of a finite set of integers
RECURSIVE SortedInts(_)
SortedInts(S) ==
    IF S = {} THEN <<>>
    ELSE LET m == CHOOSE x \in S : \A y \in S : x <= y
         IN  <<m>> \o SortedInts(S \ {m})

ClusterRows(ws, tol2) ==
    LET keys == SortedInts({RowKey(ws[i], tol2) : i \in 1..Len(ws)})
        InRow(k) == SelectSeq(ws, LAMBDA w : RowKey(w, tol2) = k)
    IN  [j \in 1..Len(keys) |-> SortByX0(InRow(keys[j]))]

\* cluster_rows(words, tol) with the default tol=6.0
DefaultTol2 == 12
cluster_rows(ws) == ClusterRows(ws, DefaultTol2)

-----------------------------------------------------------------------------
(* parse_pdf_availability *)

\* str.strip() of blanks
RECURSIVE Strip(_)
Strip(s) ==
    IF s # <<>> /\ s[1] = " " THEN Strip(Tail(s))
    ELSE IF s # <<>> /\ s[Len(s)] = " " THEN Strip(SubSeq(s, 1, Len(s) - 1))
    ELSE s

\* w["text"].lstrip("0").isdigit() and 1 <= int(w["text"].lstrip("0")) <= 31
IsDayWord(w) ==
    LET t == Lstrip0(w.text)
    IN  IsDigitStr(t) /\ 1 <= ToInt(t) /\ ToInt(t) <= 31

\* str(int(w["text"].lstrip("0")))
DayKey(w) == IntToStr(ToInt(Lstrip0(w.text)))

\* len({w["text"] for w in r})
DistinctTexts(r) == Cardinality({r[i].text : i \in 1..Len(r)})

\* max(day_rows, key=...): the first row with the most distinct texts
BestRow(day_rows) ==
    LET i == CHOOSE k \in 1..Len(day_rows) :
                /\ \A j \in 1..Len(day_rows) : DistinctTexts(day_rows[j]) <= DistinctTexts(day_rows[k])
                /\ \A j \in 1..(k - 1) : DistinctTexts(day_rows[j]) < DistinctTexts(day_rows[k])
    IN  day_rows[i]

\* d[k] = v on a dict kept as a sequence of <<key, value>>: a key seen before
\* keeps its place and takes the new value
DictSet(d, k, v) ==
    IF \E i \in 1..Len(d) : d[i][1] = k
    THEN [i \in 1..Len(d) |-> IF d[i][1] = k THEN <<k, v>> ELSE d[i]]
    ELSE Append(d, <<k, v>>)

DictKeys(d) == {d[i][1] : i \in 1..Len(d)}

\* {str(int(w["text"].lstrip("0"))): (w["x0"] + w["x1"]) / 2 for w in best_row}
RECURSIVE DayCols(_)
DayCols(best_row) ==
    IF best_row = <<>> THEN <<>>
    ELSE LET w == best_row[Len(best_row)]
         IN  DictSet(DayCols(SubSeq(best_row, 1, Len(best_row) - 1)), DayKey(w), XC2(w))

\* " ".join(w["text"] for w in row)
RECURSIVE TextLine(_)
TextLine(row) ==
    IF row = <<>> THEN <<>>
    ELSE IF Len(row) = 1 THEN row[1].text
    ELSE row[1].text \o <<" ">> \o TextLine(Tail(row))

\* the number of upper-case letters at s[j], s[j+1], ..., counted up to 3
UpperRun(s, j) ==
    IF j > Len(s) \/ ~IsUpperChar(s[j]) THEN 0
    ELSE IF j + 1 > Len(s) \/ ~IsUpperChar(s[j + 1]) THEN 1
    ELSE IF j + 2 > Len(s) \/ ~IsUpperChar(s[j + 2]) THEN 2
    ELSE 3

\* re.findall(r"\(?([A-Z]{2,3})\)?", s) from position i on
RECURSIVE FindCodes(_, _)
FindCodes(s, i) ==
    IF i > Len(s) THEN <<>>
    ELSE LET j == IF s[i] = "(" THEN i + 1 ELSE i
             n == UpperRun(s, j)
             e == j + n
         IN  IF n >= 2
             THEN <<SubSeq(s, j, e - 1)>>
                    \o FindCodes(s, IF e <= Len(s) /\ s[e] = ")" THEN e + 1 ELSE e)
             ELSE FindCodes(s, i + 1)

\* [m for m in matches if not valid_pilots or m in valid_pilots]
PilotCodes(matches, valid) ==
    SelectSeq(matches, LAMBDA m : valid = None \/ ValueOf(valid) = {} \/ m \in ValueOf(valid))

\* sum((w["top"] + w["bottom"]) / 2 for w in row) / len(row), as a fraction
RECURSIVE SumYC2(_)
SumYC2(row) == IF row = <<>> THEN 0 ELSE YC2(row[1]) + SumYC2(Tail(row))
RowY(row) == [num |-> SumYC2(row), den |-> 2 * Len(row)]

FracLess(a, b) == a.num * b.den < b.num * a.den
\* a - b > n
FracDiffGreater(a, b, n) == a.num * b.den - b.num * a.den > n * a.den * b.den

\* first pass: the pilot rows of the page, in row order
RECURSIVE PilotRows(_, _, _)
PilotRows(rws, i, valid) ==
    IF i > Len(rws) THEN <<>>
    ELSE LET codes == PilotCodes(FindCodes(TextLine(rws[i]), 1), valid)
         IN  (IF codes # <<>>
              THEN <<[row_index |-> i, pilot_codes |-> codes, y_position |-> RowY(rws[i])]>>
              ELSE <<>>) \o PilotRows(rws, i + 1, valid)

\* w["text"].strip().upper() == available_code.upper()
IsMarker(w, code) == Upper(Strip(w.text)) = Upper(code)

\* pilot_row["y_position"] < row_y
IsAbove(pilot_row, row_y) == FracLess(pilot_row.y_position, row_y)

\* the loop over pilot_rows, from index k on, with the nearest row so far
\* (distance < min_distance: the row is strictly nearer than the one kept)
RECURSIVE NearestPilotFrom(_, _, _, _)
NearestPilotFrom(prs, k, row_y, nearest) ==
    IF k > Len(prs) THEN nearest
    ELSE IF /\ IsAbove(prs[k], row_y)
            /\ (nearest = None \/ FracLess(ValueOf(nearest).y_position, prs[k].y_position))
         THEN NearestPilotFrom(prs, k + 1, row_y, Some(prs[k]))
         ELSE NearestPilotFrom(prs, k + 1, row_y, nearest)

NearestPilot(prs, row_y) == NearestPilotFrom(prs, 1, row_y, None)

MaxPilotDistance == 10

\* TooFar without the distance limit
TooFarWithoutLimit(nearest, row_y) == nearest = None

\* nearest_pilot is None or min_distance > 10.0
TooFar(nearest, row_y) ==
    nearest = None \/ FracDiffGreater(row_y, ValueOf(nearest).y_position, MaxPilotDistance)

\* NearestDay with the signed difference day_cols[d] - xcenter as the key
NearestDaySigned(cols, xc2) ==
    LET Dist(i) == cols[i][2] - xc2
        i == CHOOSE k \in 1..Len(cols) :
                /\ \A j \in 1..Len(cols) : Dist(k) <= Dist(j)
                /\ \A j \in 1..(k - 1) : Dist(k) < Dist(j)
    IN  cols[i][1]

\* min(day_cols.keys(), key=lambda d: abs(day_cols[d] - xcenter)): the first
\* key, in dict order, at the least distance
NearestDay(cols, xc2) ==
    LET Dist(i) == IF cols[i][2] >= xc2 THEN cols[i][2] - xc2 ELSE xc2 - cols[i][2]
        i == CHOOSE k \in 1..Len(cols) :
                /\ \A j \in 1..Len(cols) : Dist(k) <= Dist(j)
                /\ \A j \in 1..(k - 1) : Dist(k) < Dist(j)
    IN  cols[i][1]

\* second pass: the rows that credit a pilot row
CreditingRows(rws, prs, code) ==
    {i \in 1..Len(rws) :
        /\ ~\E k \in 1..Len(prs) : prs[k].row_index = i
        /\ \E j \in 1..Len(rws[i]) : IsMarker(rws[i][j], code)
        /\ ~TooFar(NearestPilot(prs, RowY(rws[i])), RowY(rws[i]))}

\* second pass: one record per marker word that is credited
PageCredits(rws, prs, cols, code) ==
    IF cols = <<>> THEN {}
    ELSE UNION {{[row_index |-> i,
                  row_y |-> RowY(rws[i]),
                  marker |-> rws[i][j],
                  day |-> NearestDay(cols, XC2(rws[i][j])),
                  pilot |-> ValueOf(NearestPilot(prs, RowY(rws[i])))] :
                    j \in {k \in 1..Len(rws[i]) : IsMarker(rws[i][k], code)}} :
                i \in CreditingRows(rws, prs, code)}

CodeSet(pilot_row) == {pilot_row.pilot_codes[k] : k \in 1..Len(pilot_row.pilot_codes)}

\* availability.setdefault(day, set()).add(pilot_code), for every credit
Credited(avail, cs) ==
    [d \in DOMAIN avail \cup {c.day : c \in cs} |->
        (IF d \in DOMAIN avail THEN avail[d] ELSE {})
            \cup UNION {CodeSet(c.pilot) : c \in {x \in cs : x.day = d}}]

\* SortedDays without key=int: the strings in lexicographic order
RECURSIVE SortedDaysAsText(_)
SortedDaysAsText(S) ==
    IF S = {} THEN <<>>
    ELSE LET m == CHOOSE x \in S : \A y \in S : x = y \/ StrLess(x, y)
         IN  <<m>> \o SortedDaysAsText(S \ {m})

\* sorted([str(d) for d in all_days], key=int)
RECURSIVE SortedDays(_)
SortedDays(S) ==
    IF S = {} THEN <<>>
    ELSE LET m == CHOOSE x \in S : \A y \in S : ToInt(x) <= ToInt(y)
         IN  <<m>> \o SortedDays(S \ {m})

EmptyDict == [d \in {} |-> {}]

\* the parser's variables before parse_pdf_availability is called
ParseIdle ==
    /\ available_code = <<>>
    /\ valid_pilots = None
    /\ page_no = 0
    /\ day_cols = <<>>
    /\ rows = <<>>
    /\ pilot_rows = <<>>
    /\ all_days = {}
    /\ availability = EmptyDict
    /\ credits = {}
    /\ days = <<>>

\* bound on the pages of a document
MaxPages == 2

\* for page in pdf.pages: words = page.extract_words(...); if not words: continue
ReadPage(pages) ==
    /\ pc = "page_loop"
    /\ page_no < MaxPages
    /\ \E page \in pages :
        /\ words' = page
        /\ pc' = IF page = <<>> THEN "page_loop" ELSE "detect_days"
    /\ page_no' = page_no + 1
    /\ UNCHANGED <<available_code, valid_pilots, day_cols, rows, pilot_rows,
                   all_days, availability, credits, days, clusterVars, pipeVars>>

\* day_words ... all_days.update(day_cols.keys())
DetectDays ==
    /\ pc = "detect_days"
    /\ LET day_words == SelectSeq(words, IsDayWord)
       IN  IF day_words = <<>>
           THEN /\ pc' = "page_loop"
                /\ words' = <<>>
                /\ UNCHANGED <<day_cols, all_days>>
           ELSE /\ day_cols' = DayCols(BestRow(cluster_rows(day_words)))
                /\ all_days' = all_days \cup DictKeys(day_cols')
                /\ pc' = "first_pass"
                /\ UNCHANGED words
    /\ UNCHANGED <<available_code, valid_pilots, page_no, rows, pilot_rows,
                   availability, credits, days, clusterVars, pipeVars>>

\* rows = cluster_rows(words); first pass
FirstPass ==
    /\ pc = "first_pass"
    /\ rows' = cluster_rows(words)
    /\ pilot_rows' = PilotRows(rows', 1, valid_pilots)
    /\ pc' = "second_pass"
    /\ UNCHANGED <<words, available_code, valid_pilots, page_no, day_cols,
                   all_days, availability, credits, days, clusterVars, pipeVars>>

\* second pass
SecondPass ==
    /\ pc = "second_pass"
    /\ credits' = PageCredits(rows, pilot_rows, day_cols, available_code)
    /\ availability' = Credited(availability, credits')
    /\ pc' = "page_done"
    /\ UNCHANGED <<words, available_code, valid_pilots, page_no, day_cols, rows,
                   pilot_rows, all_days, days, clusterVars, pipeVars>>

\* the end of the loop body: back to the loop head, where the names bound in
\* the body (words, day_cols, rows, pilot_rows) are dead, each being assigned
\* again before it is read
NextIteration ==
    /\ pc = "page_done"
    /\ pc' = "page_loop"
    /\ words' = <<>>
    /\ day_cols' = <<>>
    /\ rows' = <<>>
    /\ pilot_rows' = <<>>
    /\ credits' = {}
    /\ UNCHANGED <<available_code, valid_pilots, page_no, all_days, availability,
                   days, clusterVars, pipeVars>>

\* return sorted([str(d) for d in all_days], key=int), availability
ParseReturn ==
    /\ pc = "page_loop"
    /\ days' = SortedDays(all_days)
    /\ pc' = "parsed"
    /\ UNCHANGED <<words, available_code, valid_pilots, page_no, day_cols, rows,
                   pilot_rows, all_days, availability, credits, clusterVars, pipeVars>>

-----------------------------------------------------------------------------
(* build_allowed_pairs *)

PIC == <<"P", "I", "C">>
SIC == <<"S", "I", "C">>

SeqSet(q) == {q[i] : i \in 1..Len(q)}

\* role_map.get(p, "")
RoleOf(rm, p) == IF p \in DOMAIN rm THEN rm[p] ELSE <<>>

\* [p for p in available_codes if role_map.get(p, "").upper() == "PIC"]
BuildPICs(codes, rm) == SelectSeq(codes, LAMBDA p : Upper(RoleOf(rm, p)) = PIC)

\* BuildSICs taking every code that is not a PIC
BuildSICsAsRest(codes, rm) == SelectSeq(codes, LAMBDA p : Upper(RoleOf(rm, p)) # PIC)

\* [p for p in available_codes if role_map.get(p, "").upper() == "SIC"]
BuildSICs(codes, rm) == SelectSeq(codes, LAMBDA p : Upper(RoleOf(rm, p)) = SIC)

\* AllowedPairs without the restriction filter
RECURSIVE AllPairs(_, _, _)
AllPairs(pics, sics, rs) ==
    IF pics = <<>> THEN <<>>
    ELSE [j \in 1..Len(sics) |-> <<pics[1], sics[j]>>] \o AllPairs(Tail(pics), sics, rs)

\* [(pic, sic) for pic in PICs for sic in SICs if (pic, sic) not in restrictions_set]
RECURSIVE AllowedPairs(_, _, _)
AllowedPairs(pics, sics, rs) ==
    IF pics = <<>> THEN <<>>
    ELSE SelectSeq([j \in 1..Len(sics) |-> <<pics[1], sics[j]>>], LAMBDA e : e \notin rs)
            \o AllowedPairs(Tail(pics), sics, rs)

-----------------------------------------------------------------------------
(* max_bipartite_pairings: G is the graph on PICs and SICs with the given
   edges; maximum_matching(G, top_nodes=PICs) is the Hopcroft-Karp algorithm,
   modelled as the repeated flipping of an augmenting path from an unmatched
   PIC to an unmatched SIC, in any order, until none is left *)

\* the neighbours of u in G
Adj(edges, u) ==
    {e[2] : e \in {x \in SeqSet(edges) : x[1] = u}}
        \cup {e[1] : e \in {x \in SeqSet(edges) : x[2] = u}}

\* the augmenting paths that extend path, which ends at a node of the top side
RECURSIVE PathsFrom(_, _, _)
PathsFrom(edges, M, path) ==
    LET u == path[Len(path)]
        next == {v \in Adj(edges, u) : v \notin SeqSet(path) /\ (u \notin DOMAIN M \/ M[u] # v)}
    IN  UNION {IF v \notin DOMAIN M THEN {Append(path, v)}
               ELSE IF M[v] \in SeqSet(path) THEN {}
               ELSE PathsFrom(edges, M, path \o <<v, M[v]>>) : v \in next}

\* AugmentingPaths that looks one edge ahead only: an unmatched PIC next to an
\* unmatched SIC (a greedy, maximal matching)
GreedyPaths(pics, edges, M) ==
    {<<e[1], e[2]>> : e \in {x \in SeqSet(edges) :
                                /\ x[1] \in SeqSet(pics)
                                /\ x[1] \notin DOMAIN M
                                /\ x[2] \notin DOMAIN M}}

\* the augmenting paths of matching M, from the unmatched nodes of the top side
AugmentingPaths(pics, edges, M) ==
    UNION {PathsFrom(edges, M, <<u>>) : u \in SeqSet(pics) \ DOMAIN M}

\* the matching with the edges of an augmenting path flipped
Flip(M, path) ==
    [n \in DOMAIN M \cup SeqSet(path) |->
        IF n \in SeqSet(path)
        THEN LET i == CHOOSE k \in 1..Len(path) : path[k] = n
             IN  IF i % 2 = 1 THEN path[i + 1] ELSE path[i - 1]
        ELSE M[n]]

\* the ascending sequence of a finite set of str
RECURSIVE SortedStrs(_)
SortedStrs(S) ==
    IF S = {} THEN <<>>
    ELSE LET m == CHOOSE x \in S : \A y \in S : x = y \/ StrLess(x, y)
         IN  <<m>> \o SortedStrs(S \ {m})

\* matching.items(): the keys of the dict (their order is the library's; the
\* model lists the PICs first, in list order, then the other keys)
MatchingKeys(M, pics) ==
    SelectSeq(pics, LAMBDA n : n \in DOMAIN M) \o SortedStrs(DOMAIN M \ SeqSet(pics))

\* PairingsOf without the filter: every item of the dict
AllItems(M, pics) == [i \in 1..Len(MatchingKeys(M, pics)) |->
                        <<MatchingKeys(M, pics)[i], M[MatchingKeys(M, pics)[i]]>>]

\* [(pic, partner) for pic, partner in matching.items() if pic in PICs]
PairingsOf(M, pics) ==
    LET keys == SelectSeq(MatchingKeys(M, pics), LAMBDA n : n \in SeqSet(pics))
    IN  [i \in 1..Len(keys) |-> <<keys[i], M[keys[i]]>>]

EmptyMatching == [n \in {} |-> <<>>]

-----------------------------------------------------------------------------
(* load_dataframe and the tables; an uploaded table is a record
   [ext, columns, rows]: the extension of its name, whether it has the
   columns the script reads, and its rows *)

\* uploaded_file.name.endswith(".csv") or .endswith(".xlsx")
Readable(file) == file.ext \in {"csv", "xlsx"}

\* dict(zip(Pilot.str.upper(), Role.str.upper())): the last row of a pilot wins
RoleMapOf(table) ==
    [k \in {Upper(table[i].Pilot) : i \in 1..Len(table)} |->
        LET last == CHOOSE i \in 1..Len(table) :
                        /\ Upper(table[i].Pilot) = k
                        /\ \A j \in (i + 1)..Len(table) : Upper(table[j].Pilot) # k
        IN  Upper(table[last].Role)]

\* roles_df["Pilot"].astype(str).str.upper().tolist(), as the set made of it
ValidPilotsOf(table) == {Upper(table[i].Pilot) : i \in 1..Len(table)}

\* RestrictionsOf without .upper()
RestrictionsAsWritten(table) == {<<table[i].PIC, table[i].SIC>> : i \in 1..Len(table)}

\* set((str(r.PIC).upper(), str(r.SIC).upper()) for _, r in restr_df.iterrows())
RestrictionsOf(table) == {<<Upper(table[i].PIC), Upper(table[i].SIC)>> : i \in 1..Len(table)}

-----------------------------------------------------------------------------
(* The script, top to bottom *)

InfoUploadPdf == "info: Upload your roster PDF to begin."
WarnUploadTables == "warning: Upload the Roles and Restrictions files to compute pairings."
ErrorNoDays == "error: No day columns detected. Share a sample PDF if parsing fails."

PairingIdle ==
    /\ chosen_day = None
    /\ avail_today = <<>>
    /\ PICs = <<>>
    /\ SICs = <<>>
    /\ allowed_edges = <<>>
    /\ matching = EmptyMatching
    /\ pairings = None

\* the script's variables in a run that is not the script's
PipelineIdle ==
    /\ pdf_file = None
    /\ roles_file = None
    /\ restr_file = None
    /\ avail_code = <<>>
    /\ shown = ""
    /\ role_map = None
    /\ restrictions = None
    /\ PairingIdle

\* if not pdf_file: ... st.stop(); if not roles_file or not restr_file: ... st.stop()
CheckUploads ==
    /\ pc = "start"
    /\ IF pdf_file = None
       THEN shown' = InfoUploadPdf /\ pc' = "stopped"
       ELSE IF roles_file = None \/ restr_file = None
       THEN shown' = WarnUploadTables /\ pc' = "stopped"
       ELSE shown' = shown /\ pc' = "load_roles"
    /\ UNCHANGED <<words, clusterVars, parseVars, inputVars, tableVars, pairVars>>

\* roles_df = load_dataframe(roles_file); valid_pilots = ...; role_map = ...
LoadRoles ==
    /\ pc = "load_roles"
    /\ LET file == ValueOf(roles_file)
       IN  IF Readable(file) /\ file.columns
           THEN /\ role_map' = Some(RoleMapOf(file.rows))
                /\ pc' = "load_restrictions"
           ELSE /\ role_map' = role_map
                /\ pc' = "raised"
    /\ UNCHANGED <<words, clusterVars, parseVars, inputVars, shown, restrictions, pairVars>>

\* restr_df = load_dataframe(restr_file); restrictions = ...
LoadRestrictions ==
    /\ pc = "load_restrictions"
    /\ LET file == ValueOf(restr_file)
       IN  IF Readable(file) /\ file.columns
           THEN /\ restrictions' = Some(RestrictionsOf(file.rows))
                /\ pc' = "call_parse"
           ELSE /\ restrictions' = restrictions
                /\ pc' = "raised"
    /\ UNCHANGED <<words, clusterVars, parseVars, inputVars, shown, role_map, pairVars>>

\* parse_pdf_availability(pdf_bytes, available_code=avail_code, valid_pilots=valid_pilots, ...)
CallParse ==
    /\ pc = "call_parse"
    /\ available_code' = avail_code
    /\ valid_pilots' = Some(ValidPilotsOf(ValueOf(roles_file).rows))
    /\ all_days' = {}
    /\ availability' = EmptyDict
    /\ pc' = "page_loop"
    /\ UNCHANGED <<words, clusterVars, page_no, day_cols, rows, pilot_rows, credits, days,
                   pipeVars>>

\* CheckDays that goes on without days
CheckDaysWithoutStop ==
    /\ pc = "parsed"
    /\ shown' = (IF days = <<>> THEN ErrorNoDays ELSE shown)
    /\ pc' = "select_day"
    /\ page_no' = 0
    /\ UNCHANGED <<words, clusterVars, available_code, valid_pilots, day_cols, rows,
                   pilot_rows, all_days, availability, credits, days, inputVars,
                   tableVars, pairVars>>

\* if not days: st.error(...); st.stop()
\* (when the script goes on, only the two results of the call are left: the
\* page counter of the finished loop is dropped)
CheckDays ==
    /\ pc = "parsed"
    /\ IF days = <<>>
       THEN shown' = ErrorNoDays /\ pc' = "stopped" /\ page_no' = page_no
       ELSE shown' = shown /\ pc' = "select_day" /\ page_no' = 0
    /\ UNCHANGED <<words, clusterVars, available_code, valid_pilots, day_cols, rows,
                   pilot_rows, all_days, availability, credits, days, inputVars,
                   tableVars, pairVars>>

\* chosen_day = st.selectbox(..., days); avail_today = sorted(list(availability.get(chosen_day, set())))
SelectDay ==
    /\ pc = "select_day"
    /\ chosen_day' \in (IF days = <<>> THEN {None} ELSE {Some(days[i]) : i \in 1..Len(days)})
    /\ avail_today' =
        (IF chosen_day' # None /\ ValueOf(chosen_day') \in DOMAIN availability
         THEN SortedStrs(availability[ValueOf(chosen_day')])
         ELSE <<>>)
    /\ pc' = "build"
    /\ UNCHANGED <<words, clusterVars, parseVars, inputVars, shown, tableVars,
                   PICs, SICs, allowed_edges, matching, pairings>>

\* PICs, SICs, allowed_edges = build_allowed_pairs([p.upper() for p in avail_today], role_map, restrictions)
BuildPairs ==
    /\ pc = "build"
    /\ LET codes == [i \in 1..Len(avail_today) |-> Upper(avail_today[i])]
       IN  /\ PICs' = BuildPICs(codes, ValueOf(role_map))
           /\ SICs' = BuildSICs(codes, ValueOf(role_map))
           /\ allowed_edges' = AllowedPairs(PICs', SICs', ValueOf(restrictions))
    /\ pc' = "match"
    /\ UNCHANGED <<words, clusterVars, parseVars, inputVars, shown, tableVars,
                   chosen_day, avail_today, matching, pairings>>

\* max_bipartite_pairings: G built, the matching empty
MatchStart ==
    /\ pc = "match"
    /\ matching' = EmptyMatching
    /\ pc' = "augment"
    /\ UNCHANGED <<words, clusterVars, parseVars, inputVars, shown, tableVars,
                   chosen_day, avail_today, PICs, SICs, allowed_edges, pairings>>

\* maximum_matching: one augmenting path flipped
Augment ==
    /\ pc = "augment"
    /\ \E path \in AugmentingPaths(PICs, allowed_edges, matching) :
        matching' = Flip(matching, path)
    /\ UNCHANGED <<pc, words, clusterVars, parseVars, inputVars, shown, tableVars,
                   chosen_day, avail_today, PICs, SICs, allowed_edges, pairings>>

\* maximum_matching returns when no augmenting path is left; the pairings are returned
MatchReturn ==
    /\ pc = "augment"
    /\ AugmentingPaths(PICs, allowed_edges, matching) = {}
    /\ pairings' = Some(PairingsOf(matching, PICs))
    /\ pc' = "done"
    /\ UNCHANGED <<words, clusterVars, parseVars, inputVars, shown, tableVars,
                   chosen_day, avail_today, PICs, SICs, allowed_edges, matching>>

-----------------------------------------------------------------------------
(* parse_pdf_availability(file_like, available_code, valid_pilots) on
   documents of up to MaxPages pages *)

\* a word of height 4 and width 4 centred at (xc, yc)
Word(text, xc, yc) ==
    [text |-> text, x0 |-> xc - 2, x1 |-> xc + 2, top |-> yc - 2, bottom |-> yc + 2]

KVB == <<"K", "V", "B">>
HEB == <<"H", "E", "B">>
YAD == <<"Y", "A", "D">>
JX == <<"J", "X">>
Paren(code) == <<"(">> \o code \o <<")">>

\* the header row: day labels at x = 10, 50, 90, with other numbers beside them
HeaderSlot1 == {<<>>, <<Word(<<"1">>, 10, 2)>>, <<Word(<<"0", "1">>, 10, 3)>>}
HeaderSlot2 == {<<>>, <<Word(<<"2">>, 50, 2)>>, <<Word(<<"1", "0">>, 50, 2)>>}
HeaderSlot3 == {<<>>, <<Word(<<"3">>, 90, 2)>>}
StraySlot ==
    {<<>>,
     <<Word(<<"3", "2">>, 70, 2)>>,
     <<Word(<<"0">>, 70, 2)>>,
     <<Word(<<"1">>, 12, 2)>>,
     <<Word(<<"7">>, 30, 60), Word(<<"0", "7">>, 20, 60)>>}
Headers ==
    {h1 \o h2 \o h3 \o st : h1 \in HeaderSlot1, h2 \in HeaderSlot2, h3 \in HeaderSlot3,
                            st \in StraySlot}
FullHeader == <<Word(<<"1">>, 10, 2), Word(<<"2">>, 50, 2), Word(<<"3">>, 90, 2)>>

\* the pilot rows of a page
PilotSlot ==
    {<<>>,
     <<Word(Paren(KVB), 4, 18)>>,
     <<Word(HEB, 4, 18), Word(Paren(YAD), 4, 30)>>,
     <<Word(Paren(KVB), 4, 18), Word(HEB, 9, 19), Word(YAD, 4, 30)>>}

\* the marker rows of a page
MarkerTexts == {<<"A">>, <<"a">>, <<"X">>}
MarkerXs == {48, 30, 88}
MarkerYs == {12, 18, 25, 36, 40, 41}
MarkerSlot ==
    {<<>>} \cup {<<Word(t, x, y)>> : t \in MarkerTexts, x \in MarkerXs, y \in MarkerYs}
              \cup {<<Word(<<"A">>, 48, 36), Word(<<"a">>, 12, 37)>>}
Bodies == {p \o m : p \in PilotSlot, m \in MarkerSlot}

SomeBody == <<Word(Paren(KVB), 4, 18), Word(<<"A">>, 48, 25)>>

\* the pages a roster document is made of; <<>> is a page without words
ParsePages ==
    {h \o SomeBody : h \in Headers} \cup {FullHeader \o b : b \in Bodies} \cup {<<>>}

InitParse ==
    /\ pc = "page_loop"
    /\ words = <<>>
    /\ tols = <<0, 0>> /\ rows_lo = <<>> /\ rows_hi = <<>>
    /\ available_code \in {<<"A">>, <<"a">>}
    /\ valid_pilots \in {None, Some({KVB, YAD})}
    /\ page_no = 0
    /\ day_cols = <<>>
    /\ rows = <<>>
    /\ pilot_rows = <<>>
    /\ all_days = {}
    /\ availability = EmptyDict
    /\ credits = {}
    /\ days = <<>>
    /\ PipelineIdle

ReadAnyPage == ReadPage(ParsePages)

NextParse ==
    ReadAnyPage \/ DetectDays \/ FirstPass \/ SecondPass \/ NextIteration \/ ParseReturn

SpecParse == InitParse /\ [][NextParse]_vars

-----------------------------------------------------------------------------
(* A run of the script on uploaded files *)

\* bound on the pilots of the roster and of the tables
NumPilots == 4

MQ == <<"M", "Q">>
AllCodes == <<KVB, HEB, YAD, JX, MQ>>
Pilots == 1..NumPilots

LowerChar(c) == IF InSeq(UpperChars, c) THEN LowerChars[IndexIn(UpperChars, c)] ELSE c
Lower(s) == [i \in 1..Len(s) |-> LowerChar(s[i])]
Capital(s) == [i \in 1..Len(s) |-> IF i = 1 THEN s[i] ELSE LowerChar(s[i])]

\* how a table writes the k-th pilot's code and roles: in upper case, in lower
\* case or capitalised, by turns
Written(k, s) == IF k % 3 = 1 THEN s ELSE IF k % 3 = 2 THEN Lower(s) ELSE Capital(s)
FO == <<"F", "O">>

RoleChoices == {"absent", "pic", "sic", "other"}
RoleRow(k, choice) ==
    IF choice = "absent" THEN <<>>
    ELSE <<[Pilot |-> Written(k, AllCodes[k]),
            Role |-> IF choice = "pic" THEN Written(k, PIC)
                     ELSE IF choice = "sic" THEN Written(k + 1, SIC)
                     ELSE FO]>>
RECURSIVE RoleRows(_, _)
RoleRows(choice, k) ==
    IF k > NumPilots THEN <<>> ELSE RoleRow(k, choice[k]) \o RoleRows(choice, k + 1)
RoleTables == {RoleRows(choice, 1) : choice \in [Pilots -> RoleChoices]}

\* the rows a restrictions table is made of
RestrictionRows ==
    <<[PIC |-> KVB, SIC |-> HEB],
      [PIC |-> Lower(KVB), SIC |-> Lower(YAD)],
      [PIC |-> Capital(JX), SIC |-> HEB]>>
RECURSIVE PickRows(_, _)
PickRows(picked, i) ==
    IF i > Len(RestrictionRows) THEN <<>>
    ELSE (IF i \in picked THEN <<RestrictionRows[i]>> ELSE <<>>) \o PickRows(picked, i + 1)
RestrictionTables == {PickRows(picked, 1) : picked \in SUBSET (1..Len(RestrictionRows))}

Table(rows_) == [ext |-> "csv", columns |-> TRUE, rows |-> rows_]
\* a table under a name that load_dataframe refuses, and one without its columns
BadTables == {[ext |-> "CSV", columns |-> TRUE, rows |-> <<>>],
              [ext |-> "xlsx", columns |-> FALSE, rows |-> <<>>]}

\* a roster page: days 1, 2, 3 at x = 10, 50, 90; the k-th pilot's row at
\* y = 18 + 12 (k - 1) and the markers of that pilot 6 below it: on day 1 for
\* every pilot, on day 2 for the first three, on day 3 for all but the first
RECURSIVE RosterRows(_)
RosterRows(k) ==
    IF k > NumPilots THEN <<>>
    ELSE <<Word(Paren(AllCodes[k]), 4, 6 + 12 * k), Word(<<"A">>, 10, 12 + 12 * k)>>
            \o (IF k <= 3 THEN <<Word(<<"A">>, 50, 12 + 12 * k)>> ELSE <<>>)
            \o (IF k >= 2 THEN <<Word(<<"a">>, 89, 12 + 12 * k)>> ELSE <<>>)
            \o RosterRows(k + 1)
RosterPage == FullHeader \o RosterRows(1)
\* a page with a pilot and a marker but no day label
PageWithoutDays == SomeBody
PdfPages == {RosterPage, PageWithoutDays}

Init ==
    /\ pc = "start"
    /\ words = <<>>
    /\ tols = <<0, 0>> /\ rows_lo = <<>> /\ rows_hi = <<>>
    /\ ParseIdle
    /\ pdf_file \in {None, Some("roster.pdf")}
    /\ roles_file \in {None} \cup {Some(Table(t)) : t \in RoleTables} \cup {Some(t) : t \in BadTables}
    /\ restr_file \in {None} \cup {Some(Table(t)) : t \in RestrictionTables}
                        \cup {Some(t) : t \in BadTables}
    /\ avail_code = <<"A">>
    /\ shown = ""
    /\ role_map = None
    /\ restrictions = None
    /\ PairingIdle

ReadPdfPage == ReadPage(PdfPages)

Next ==
    \/ CheckUploads
    \/ LoadRoles
    \/ LoadRestrictions
    \/ CallParse
    \/ ReadPdfPage
    \/ DetectDays
    \/ FirstPass
    \/ SecondPass
    \/ NextIteration
    \/ ParseReturn
    \/ CheckDays
    \/ SelectDay
    \/ BuildPairs
    \/ MatchStart
    \/ Augment
    \/ MatchReturn

Spec == Init /\ [][Next]_vars

-----------------------------------------------------------------------------
(* Properties of the pairing computation *)

Built == pc \in {"match", "augment", "done"}
EdgeSet == SeqSet(allowed_edges)
NoDuplicates(q) == \A i, j \in 1..Len(q) : q[i] = q[j] => i = j
Min(a, b) == IF a <= b THEN a ELSE b

\* a set of edges no two of which share a pilot
IsMatching(es) == \A e, f \in es : e # f => (e[1] # f[1] /\ e[2] # f[2])
\* the maximum matching number of the graph, by enumeration
MaxMatchingNumber(es) ==
    LET sizes == {Cardinality(m) : m \in {x \in SUBSET es : IsMatching(x)}}
    IN  CHOOSE n \in sizes : \A k \in sizes : k <= n

\* C1: the list max_bipartite_pairings returns has as many pairings as the
\* maximum matching number of the graph of PICs, SICs and allowed edges; it has
\* 2 for two PICs and two SICs with all four edges; with no PIC or no SIC it is
\* the empty list, and the call returns (nothing is raised).
C1_MaximumMatching ==
    /\ pc = "done" =>
        /\ Len(ValueOf(pairings)) = MaxMatchingNumber(EdgeSet)
        /\ (Len(PICs) = 2 /\ Len(SICs) = 2 /\ Len(allowed_edges) = 4)
            => Len(ValueOf(pairings)) = 2
        /\ (PICs = <<>> \/ SICs = <<>>) => ValueOf(pairings) = <<>>
    /\ (pc = "augment" /\ (PICs = <<>> \/ SICs = <<>>)) => ENABLED MatchReturn

\* two PICs and two SICs of which one pair is restricted: both PICs are paired
C1_Witness ==
    /\ pc = "done"
    /\ Len(PICs) = 2 /\ Len(SICs) = 2 /\ Len(allowed_edges) = 3
    /\ Len(ValueOf(pairings)) = 2

\* C2: no pilot code occurs in more than one returned pairing: every PIC is
\* the first component of at most one pairing, every SIC the second component
\* of at most one, and there are at most min(|PICs|, |SICs|) pairings.
C2_EachPilotOnce ==
    pc = "done" =>
        LET ps == ValueOf(pairings)
        IN  /\ \A i, j \in 1..Len(ps) :
                /\ i # j => (ps[i][1] # ps[j][1] /\ ps[i][2] # ps[j][2])
                /\ ps[i][1] # ps[j][2]
            /\ \A i \in 1..Len(ps) : ps[i][1] \in SeqSet(PICs) /\ ps[i][2] \in SeqSet(SICs)
            /\ Len(ps) <= Min(Len(PICs), Len(SICs))

\* Scenario D: two PICs, two SICs, no restriction among them, two pairings
C2_Witness ==
    /\ pc = "done"
    /\ Len(PICs) = 2 /\ Len(SICs) = 2 /\ Len(allowed_edges) = 4
    /\ Len(ValueOf(pairings)) = 2
    /\ matching # EmptyMatching

ScenarioB ==
    /\ SeqSet(avail_today) = {KVB, HEB, YAD}
    /\ RoleOf(ValueOf(role_map), KVB) = PIC
    /\ RoleOf(ValueOf(role_map), HEB) = SIC
    /\ RoleOf(ValueOf(role_map), YAD) = SIC
    /\ ValueOf(restrictions) = {<<KVB, HEB>>}

\* C3: every pairing returned is one of the allowed edges build_allowed_pairs
\* returned, so none is in the RestrictionSet; in Scenario B the only pairing
\* is (KVB, YAD).
C3_NoRestrictedPairing ==
    pc = "done" =>
        /\ \A i \in 1..Len(ValueOf(pairings)) :
            /\ ValueOf(pairings)[i] \in EdgeSet
            /\ ValueOf(pairings)[i] \notin ValueOf(restrictions)
        /\ ScenarioB => ValueOf(pairings) = << <<KVB, YAD>> >>

C3_Witness ==
    /\ pc = "done"
    /\ ScenarioB
    /\ ValueOf(pairings) = << <<KVB, YAD>> >>

AvailableCodes == {Upper(avail_today[i]) : i \in 1..Len(avail_today)}
HasRole(c, role) == c \in DOMAIN ValueOf(role_map) /\ Upper(ValueOf(role_map)[c]) = role

C4_Built ==
    Built =>
        /\ SeqSet(PICs) = {c \in AvailableCodes : HasRole(c, PIC)}
        /\ SeqSet(SICs) = {c \in AvailableCodes : HasRole(c, SIC)}
        /\ EdgeSet = (SeqSet(PICs) \X SeqSet(SICs)) \ ValueOf(restrictions)

\* C4: the PIC list holds exactly the available codes whose role is PIC, the
\* SIC list exactly those whose role is SIC (a code without role, or with
\* another role, is in neither), the allowed edges are exactly PICs x SICs
\* minus the RestrictionSet, and the call leaves its inputs unchanged.
C4_BuildAllowedPairs ==
    /\ [](C4_Built)
    /\ [][pc = "build" => UNCHANGED <<avail_today, role_map, restrictions>>]_vars

\* an available code with another role, and a restricted pair among the PICs and SICs
C4_Witness ==
    /\ pc = "match"
    /\ PICs # <<>> /\ SICs # <<>>
    /\ \E c \in AvailableCodes : HasRole(c, FO)
    /\ Len(allowed_edges) < Len(PICs) * Len(SICs)

RoleRowsGiven == ValueOf(roles_file).rows
RestrictionRowsGiven == ValueOf(restr_file).rows
\* the role the roles table gives code c, up to letter case (its last row for c)
TableRole(c, role) ==
    \E i \in 1..Len(RoleRowsGiven) :
        /\ Upper(RoleRowsGiven[i].Pilot) = Upper(c)
        /\ \A j \in (i + 1)..Len(RoleRowsGiven) : Upper(RoleRowsGiven[j].Pilot) # Upper(c)
        /\ Upper(RoleRowsGiven[i].Role) = role
RestrictedUpToCase(e) ==
    \E i \in 1..Len(RestrictionRowsGiven) :
        /\ Upper(RestrictionRowsGiven[i].PIC) = Upper(e[1])
        /\ Upper(RestrictionRowsGiven[i].SIC) = Upper(e[2])

C9_Reached ==
    pc \in {"select_day", "build", "match", "augment", "done"} =>
        /\ role_map # None
        /\ restrictions # None
        /\ days # <<>>
        /\ shown = ""

C9_NoDays ==
    (pc = "parsed" /\ days = <<>>) => (pc' = "stopped" /\ shown' = ErrorNoDays)

\* C9: a run whose extraction returns an empty day list ends with the
\* "No day columns detected" error and goes no further; day selection and the
\* pairing computation are reached only with the role and restriction tables
\* loaded and a non-empty day list.
C9_NoDaysStops == [](C9_Reached) /\ [][C9_NoDays]_vars

\* the tables are loaded, the document has pages but no day label: the run stopped
C9_Witness ==
    /\ pc = "stopped"
    /\ shown = ErrorNoDays
    /\ role_map # None /\ restrictions # None
    /\ page_no > 0
    /\ pairings = None

-----------------------------------------------------------------------------
(* Properties of parse_pdf_availability *)

PilotRowSet == {pilot_rows[k] : k \in 1..Len(pilot_rows)}
\* a - b <= n for two fractions
FracDiffAtMost(a, b, n) == a.num * b.den - b.num * a.den <= n * a.den * b.den
\* the rows of the page that hold a marker and no pilot code
MarkerRowIndexes ==
    {i \in 1..Len(rows) :
        /\ \A pr \in PilotRowSet : pr.row_index # i
        /\ \E j \in 1..Len(rows[i]) : IsMarker(rows[i][j], available_code)}
\* the pilot rows strictly above row i
PilotRowsAbove(i) == {pr \in PilotRowSet : FracLess(pr.y_position, RowY(rows[i]))}

\* C7: a pilot code is credited for a marker only from the closest pilot row
\* strictly above the marker's row on the same page, and only when that row is
\* at most 10 units above; a marker row with no pilot row above it, or whose
\* closest pilot row above is more than 10 units away, credits no pilot.
C7_CreditFromClosestRowAbove ==
    pc = "page_done" =>
        /\ \A c \in credits :
            /\ c.pilot \in PilotRowSet
            /\ FracLess(c.pilot.y_position, c.row_y)
            /\ \A pr \in PilotRowSet :
                FracLess(pr.y_position, c.row_y)
                    => ~FracLess(c.pilot.y_position, pr.y_position)
            /\ FracDiffAtMost(c.row_y, c.pilot.y_position, 10)
        /\ \A i \in MarkerRowIndexes :
            (\/ PilotRowsAbove(i) = {}
             \/ \A pr \in PilotRowsAbove(i) : ~FracDiffAtMost(RowY(rows[i]), pr.y_position, 10))
                => \A c \in credits : c.row_index # i
        /\ page_no = 1 =>
            \A d \in DOMAIN availability : \A code \in availability[d] :
                \E c \in credits : c.day = d /\ code \in CodeSet(c.pilot)

\* a marker row with two pilot rows above it is credited to the nearer one,
\* and another page state drops a marker whose pilot row is too far above
C7_Witness ==
    /\ pc = "page_done"
    /\ \E c \in credits : \E pr \in PilotRowSet :
        /\ FracLess(pr.y_position, c.pilot.y_position)
        /\ \E code \in CodeSet(c.pilot) : code \in availability[c.day]

ColumnDistance(i, xc2) == Abs(day_cols[i][2] - xc2)

\* C8: every credited marker is assigned to a day of the page's DayColumnMap
\* whose column centre is at the least absolute horizontal distance from the
\* marker's centre: no day of the map is strictly closer.
C8_NearestDayColumn ==
    pc = "page_done" =>
        \A c \in credits :
            \E i \in 1..Len(day_cols) :
                /\ day_cols[i][1] = c.day
                /\ \A j \in 1..Len(day_cols) :
                    ColumnDistance(i, XC2(c.marker)) <= ColumnDistance(j, XC2(c.marker))

\* Scenario A: columns 1 at 10, 2 at 50, 3 at 90, a marker at x = 48 goes to day 2
C8_Witness ==
    /\ pc = "page_done"
    /\ day_cols = << <<(<<"1">>), 20>>, <<(<<"2">>), 100>>, <<(<<"3">>), 180>> >>
    /\ \E c \in credits : XC2(c.marker) = 96 /\ c.day = <<"2">>

\* a decimal string without leading zero of an integer in 1..31
IsDayString(s) ==
    /\ IsDigitStr(s)
    /\ s[1] # "0"
    /\ 1 <= ToInt(s) /\ ToInt(s) <= 31

C10_Returned ==
    /\ DOMAIN availability \subseteq all_days
    /\ pc = "parsed" =>
        /\ DOMAIN availability \subseteq {days[i] : i \in 1..Len(days)}
        /\ \A i \in 1..Len(days) : IsDayString(days[i])
        /\ \A i \in 1..(Len(days) - 1) : ToInt(days[i]) < ToInt(days[i + 1])

C10_SkippedPage ==
    /\ (pc = "page_loop" /\ pc' = "page_loop")
        => (all_days' = all_days /\ availability' = availability)
    /\ (pc = "detect_days" /\ SelectSeq(words, IsDayWord) = <<>>)
        => (all_days' = all_days /\ availability' = availability /\ pc' = "page_loop")

\* C10: every key of the returned availability map is in the returned day
\* list, every returned day is the leading-zero-free decimal string of an
\* integer in 1..31 and the list is strictly ascending by integer value; a page
\* without words or without day tokens changes neither the day set nor the
\* availability map and leaves the loop at its head, ready for the next page.
C10_DaysAndAvailability == [](C10_Returned) /\ [][C10_SkippedPage]_vars

\* two pages: "01" and "2" on one, "10" on the other, pilots credited on both
C10_Witness ==
    /\ pc = "parsed"
    /\ page_no = 2
    /\ days = <<(<<"1">>), (<<"2">>), (<<"1", "0">>)>>
    /\ {<<"1", "0">>, <<"2">>} \subseteq DOMAIN availability
    /\ availability[<<"1", "0">>] # {}
    /\ availability[<<"2">>] # {}

-----------------------------------------------------------------------------
(* Row clustering under two tolerances: cluster_rows(words, tol) as a
   function of its two arguments *)

\* bounds of the clustering inputs
MaxTop == 5
MaxTol2 == 6
ClusterLen == 2

Heights == {2, 4}

ClusterWord(t, h) == [text |-> <<"x">>, x0 |-> 0, x1 |-> 2, top |-> t, bottom |-> t + h]
ClusterWords == {ClusterWord(t, h) : t \in 0..MaxTop, h \in Heights}

InitCluster ==
    /\ pc = "cluster"
    /\ words \in [1..ClusterLen -> ClusterWords]
    /\ tols \in {tt \in (1..MaxTol2) \X (1..MaxTol2) : tt[1] < tt[2]}
    /\ rows_lo = <<>>
    /\ rows_hi = <<>>
    /\ ParseIdle
    /\ PipelineIdle

\* rows = cluster_rows(words, tol=t1)
ClusterLow ==
    /\ pc = "cluster"
    /\ rows_lo' = ClusterRows(words, tols[1])
    /\ pc' = "cluster_again"
    /\ UNCHANGED <<words, tols, rows_hi, parseVars, pipeVars>>

\* rows = cluster_rows(words, tol=t2)
ClusterHigh ==
    /\ pc = "cluster_again"
    /\ rows_hi' = ClusterRows(words, tols[2])
    /\ pc' = "clustered"
    /\ UNCHANGED <<words, tols, rows_lo, parseVars, pipeVars>>

NextCluster == ClusterLow \/ ClusterHigh

SpecCluster == InitCluster /\ [][NextCluster]_vars

-----------------------------------------------------------------------------
(* Properties of row clustering *)

InRowOf(row, w) == \E i \in 1..Len(row) : row[i] = w
\* the indices of the rows of rws that hold word w
RowsOf(rws, w) == {r \in 1..Len(rws) : InRowOf(rws[r], w)}
SameRow(rws, a, b) == RowsOf(rws, a) \cap RowsOf(rws, b) # {}
WordSet == {words[i] : i \in 1..Len(words)}

====
